---- MODULE Spec2Model ----
(***************************************************************************)
(* Process / service supervisor of the desktop launcher                    *)
(* (apps/desktop/src-tauri/src/main.rs).                                   *)
(*                                                                         *)
(* Tasks: the fire-and-forget startup task spawned in setup, the           *)
(* window-close handler, and a front-end caller that invokes the tauri     *)
(* commands.  Every command is split at its lock operations, OS calls and  *)
(* await points.                                                           *)
(***************************************************************************)
EXTENDS Integers, FiniteSets, Sequences, TLC

\* ---- bounds of the model ----
MaxCalls == 2          \* command invocations made by the front-end caller
MaxCloseRuns == 2      \* CloseRequested events delivered to the window

\* ---- program constants ----
MaxAttempts == 30      \* for i in 0..30
SleepMs == 500         \* Duration::from_millis(500)
NavDelayMs == 3000     \* Duration::from_secs(3)

Startup == "startup"
Closer == "close"
Cmd == "cmd"
Procs == {Startup, Closer, Cmd}
NoProc == "none"

Commands == {"start_backend", "stop_backend", "start_web_server", "stop_web_server"}
HealthCommands == {"check_backend_health"}

\* outcome of reqwest::get(backend_url)
ProbeOutcomes == {"success", "http_error", "conn_error", "timeout"}

VARIABLES
  cfg,            \* build flavour and file-system layout (fixed per run)
  alive,          \* pids of running child processes spawned by the launcher
  portOther,      \* TRUE iff a foreign listener owns 127.0.0.1:8871
  backendSlot,    \* BackendProcess.0 : 0 is None, otherwise Some(child pid)
  backendLock,    \* holder of the BackendProcess mutex
  spawnCount,     \* number of successful spawns so far (pids are 1..spawnCount)
  webSlot,        \* WebServerHandle.0 : 0 is None, otherwise Some(server id)
  webLock,        \* holder of the WebServerHandle mutex
  listening,      \* ids of servers of this program bound to the port
  serverCount,    \* number of successful binds so far
  pc,             \* position of each task
  ret,            \* result of the command a task is running / has just run
  i,              \* loop variable of the readiness poll
  probes,         \* check_backend_health calls made by the current call
  okProbes,       \* ... of which reported running = true
  slept,          \* milliseconds slept by the current call
  status,         \* local: the BackendStatus in scope and the request outcome behind it
  child,          \* local: Child spawned / taken by the current call
  handle,         \* local: ServerHandle created / taken by the current call
  did,            \* effects performed by the current call
  calls,          \* commands invoked by the front-end caller so far
  closeRuns,      \* completed runs of the close handler
  startupBackend, \* result start_backend returned to the startup task
  startupWeb,     \* result start_web_server returned to the startup task
  closeStage,     \* commands the current run of the close handler has completed
  hist,           \* facts about the run so far (history)
  navPc,          \* position of the navigation task spawned in setup
  navSlept,       \* milliseconds the navigation task has slept
  navSeen         \* what the startup task had done when window.eval was issued

envVars == <<cfg, alive, portOther>>
backVars == <<backendSlot, backendLock, spawnCount>>
webVars == <<webSlot, webLock, listening, serverCount>>
pollVars == <<i, probes, okProbes, slept, status>>
localVars == <<child, handle>>
navVars == <<navPc, navSlept, navSeen>>
orchVars == <<calls, closeRuns, startupBackend, startupWeb, closeStage>>
vars == <<cfg, alive, portOther, backendSlot, backendLock, spawnCount,
          webSlot, webLock, listening, serverCount, pc, ret, i, probes,
          okProbes, slept, status, child, handle, did, calls, closeRuns,
          startupBackend, startupWeb, closeStage, hist, navPc, navSlept, navSeen>>

\* cfg!(debug_assertions), and whether the paths the commands resolve exist.
\* Fields that the chosen flavour never reads are fixed to TRUE.
Configs ==
  { c \in [debug : BOOLEAN, resolveOk : BOOLEAN, exeExists : BOOLEAN, webDirExists : BOOLEAN] :
      /\ (c.debug => c.exeExists)
      /\ (~c.resolveOk => (c.exeExists /\ c.webDirExists)) }

\* no BackendStatus in scope
NoStatus == [outcome |-> "none", isOk |-> TRUE, running |-> FALSE]

\* window.eval has not been issued
NotNavigated == [at |-> "none", slept |-> 0, backend |-> "none", web |-> "none"]

IsOk(r) == r = "ok"
IsErr(r) == r \notin {"ok", "none"}

Init ==
  /\ cfg \in Configs
  /\ alive = {}
  /\ portOther \in BOOLEAN
  /\ backendSlot = 0
  /\ backendLock = NoProc
  /\ spawnCount = 0
  /\ webSlot = 0
  /\ webLock = NoProc
  /\ listening = {}
  /\ serverCount = 0
  /\ pc = [p \in Procs |-> CASE p = Startup -> "st_init"
                             [] p = Closer -> "cl_idle"
                             [] OTHER -> "idle"]
  /\ ret = [p \in Procs |-> "none"]
  /\ i = [p \in Procs |-> 0]
  /\ probes = [p \in Procs |-> 0]
  /\ okProbes = [p \in Procs |-> 0]
  /\ slept = [p \in Procs |-> 0]
  /\ status = [p \in Procs |-> NoStatus]
  /\ child = [p \in Procs |-> 0]
  /\ handle = [p \in Procs |-> 0]
  /\ did = [p \in Procs |-> {}]
  /\ calls = 0
  /\ closeRuns = 0
  /\ startupBackend = "none"
  /\ startupWeb = "none"
  /\ closeStage = 0
  /\ hist = [stopBackendRan |-> FALSE, launchFailed |-> FALSE,
             stopWebRan |-> FALSE, bindAttempts |-> 0, firstBindOk |-> FALSE,
             closeAfterStartupOk |-> FALSE, closeResults |-> <<>>]
  /\ navPc = "nv_setup"
  /\ navSlept = 0
  /\ navSeen = NotNavigated

\* entry point of each command
Entry(c) ==
  CASE c = "check_backend_health" -> "hc_get"
    [] c = "start_backend" -> "sb_lock"
    [] c = "stop_backend" -> "kb_lock"
    [] c = "start_web_server" -> "sw_lock"
    [] c = "stop_web_server" -> "kw_lock"

\* a task enters command c with fresh locals
Call(p, c, h) ==
  /\ pc' = [pc EXCEPT ![p] = Entry(c)]
  /\ ret' = [ret EXCEPT ![p] = "none"]
  /\ i' = [i EXCEPT ![p] = 0]
  /\ probes' = [probes EXCEPT ![p] = 0]
  /\ okProbes' = [okProbes EXCEPT ![p] = 0]
  /\ slept' = [slept EXCEPT ![p] = 0]
  /\ status' = [status EXCEPT ![p] = NoStatus]
  /\ child' = [child EXCEPT ![p] = 0]
  /\ handle' = [handle EXCEPT ![p] = 0]
  /\ did' = [did EXCEPT ![p] = {}]
  /\ hist' = [h EXCEPT
                !.stopBackendRan = @ \/ c = "stop_backend",
                !.stopWebRan = @ \/ c = "stop_web_server"]

\* a task is back in its caller: the command's locals are gone
Leave(p, next) ==
  /\ pc' = [pc EXCEPT ![p] = next]
  /\ ret' = [ret EXCEPT ![p] = "none"]
  /\ i' = [i EXCEPT ![p] = 0]
  /\ probes' = [probes EXCEPT ![p] = 0]
  /\ okProbes' = [okProbes EXCEPT ![p] = 0]
  /\ slept' = [slept EXCEPT ![p] = 0]
  /\ status' = [status EXCEPT ![p] = NoStatus]
  /\ child' = [child EXCEPT ![p] = 0]
  /\ handle' = [handle EXCEPT ![p] = 0]
  /\ did' = [did EXCEPT ![p] = {}]

\* ---------------------------------------------------------------------------
\* check_backend_health: Ok(BackendStatus) whatever reqwest::get returns;
\* running is true for any response (Ok(_)), false when the request failed.
\* Variant: the response is checked with error_for_status().
check_backend_health_status_checked(outcome) ==
  [outcome |-> outcome, isOk |-> TRUE, running |-> outcome = "success"]

check_backend_health(outcome) ==
  [outcome |-> outcome, isOk |-> TRUE, running |-> outcome \in {"success", "http_error"}]

\* the command as invoked by the front end: one request, Ok(BackendStatus)
CheckBackendHealth(p) ==
  /\ pc[p] = "hc_get"
  /\ \E outcome \in ProbeOutcomes :
       LET st == check_backend_health(outcome) IN
         /\ status' = [status EXCEPT ![p] = st]
         /\ ret' = [ret EXCEPT ![p] = IF st.isOk THEN "ok" ELSE "err_health"]
  /\ pc' = [pc EXCEPT ![p] = "hc_done"]
  /\ UNCHANGED <<navVars, envVars, backVars, webVars, i, probes, okProbes, slept,
                 localVars, did, orchVars, hist>>

\* ---------------------------------------------------------------------------
\* start_backend

\* backend_process.0.lock().unwrap()
StartBackendLock(p) ==
  /\ pc[p] = "sb_lock"
  /\ backendLock = NoProc
  /\ backendLock' = p
  /\ pc' = [pc EXCEPT ![p] = "sb_check"]
  /\ UNCHANGED <<navVars, envVars, backendSlot, spawnCount, webVars, ret, pollVars,
                 localVars, did, orchVars, hist>>

\* Variant: the is_some() check is missing, every call goes on to launch.
StartBackendCheckNoReturn(p) ==
  /\ pc[p] = "sb_check"
  /\ pc' = [pc EXCEPT ![p] = "sb_resolve"]
  /\ did' = [did EXCEPT ![p] = @ \cup {IF backendSlot # 0 THEN "sawOccupied" ELSE "sawEmpty"}]
  /\ UNCHANGED <<navVars, envVars, backVars, webVars, ret, pollVars, localVars, orchVars, hist>>

\* Variant: a call that finds the slot occupied waits for the health endpoint.
StartBackendCheckWaitsForHealth(p) ==
  /\ pc[p] = "sb_check"
  /\ IF backendSlot # 0
       THEN /\ backendLock' = NoProc
            /\ pc' = [pc EXCEPT ![p] = "sb_sleep"]
            /\ did' = [did EXCEPT ![p] = @ \cup {"sawOccupied"}]
            /\ UNCHANGED ret
       ELSE /\ pc' = [pc EXCEPT ![p] = "sb_resolve"]
            /\ did' = [did EXCEPT ![p] = @ \cup {"sawEmpty"}]
            /\ UNCHANGED <<backendLock, ret>>
  /\ UNCHANGED <<navVars, envVars, backendSlot, spawnCount, webVars, pollVars,
                 localVars, orchVars, hist>>

\* if process_guard.is_some() { return Ok(()) }   (the guard is dropped)
StartBackendCheck(p) ==
  /\ pc[p] = "sb_check"
  /\ IF backendSlot # 0
       THEN /\ backendLock' = NoProc
            /\ pc' = [pc EXCEPT ![p] = "sb_done"]
            /\ ret' = [ret EXCEPT ![p] = "ok"]
            /\ did' = [did EXCEPT ![p] = @ \cup {"sawOccupied"}]
       ELSE /\ pc' = [pc EXCEPT ![p] = "sb_resolve"]
            /\ did' = [did EXCEPT ![p] = @ \cup {"sawEmpty"}]
            /\ UNCHANGED <<backendLock, ret>>
  /\ UNCHANGED <<navVars, envVars, backendSlot, spawnCount, webVars, pollVars,
                 localVars, orchVars, hist>>

\* resource_dir()? and, in a release build, resource_path.parent()?
StartBackendResolve(p) ==
  /\ pc[p] = "sb_resolve"
  /\ IF cfg.resolveOk
       THEN /\ pc' = [pc EXCEPT ![p] = "sb_spawn"]
            /\ UNCHANGED <<backendLock, ret, hist>>
       ELSE /\ backendLock' = NoProc
            /\ pc' = [pc EXCEPT ![p] = "sb_done"]
            /\ ret' = [ret EXCEPT ![p] = "err_resolve"]
            /\ hist' = [hist EXCEPT !.launchFailed = TRUE]
  /\ did' = [did EXCEPT ![p] = @ \cup {"resolve"}]
  /\ UNCHANGED <<navVars, envVars, backendSlot, spawnCount, webVars, pollVars,
                 localVars, orchVars>>

\* Variant: the release build does not test backend_exe.exists().
StartBackendSpawnNoExeCheck(p) ==
  /\ pc[p] = "sb_spawn"
  /\ \E spawned \in BOOLEAN :
       /\ did' = [did EXCEPT ![p] = @ \cup {"spawn"}]
       /\ IF spawned /\ (cfg.debug \/ cfg.exeExists)
            THEN /\ spawnCount' = spawnCount + 1
                 /\ alive' = alive \cup {spawnCount + 1}
                 /\ child' = [child EXCEPT ![p] = spawnCount + 1]
                 /\ pc' = [pc EXCEPT ![p] = "sb_store"]
                 /\ UNCHANGED <<backendLock, ret, hist>>
            ELSE /\ backendLock' = NoProc
                 /\ pc' = [pc EXCEPT ![p] = "sb_done"]
                 /\ ret' = [ret EXCEPT ![p] = "err_spawn"]
                 /\ hist' = [hist EXCEPT !.launchFailed = TRUE]
                 /\ UNCHANGED <<alive, spawnCount, child>>
  /\ UNCHANGED <<navVars, cfg, portOther, backendSlot, webVars, pollVars, handle, orchVars>>

\* release build: if !backend_exe.exists() { return Err(..) };
\* both builds: Command::new(..).spawn().map_err(..)?
StartBackendSpawn(p) ==
  /\ pc[p] = "sb_spawn"
  /\ IF ~cfg.debug /\ ~cfg.exeExists
       THEN /\ backendLock' = NoProc
            /\ pc' = [pc EXCEPT ![p] = "sb_done"]
            /\ ret' = [ret EXCEPT ![p] = "err_not_found"]
            /\ hist' = [hist EXCEPT !.launchFailed = TRUE]
            /\ UNCHANGED <<alive, spawnCount, child, did>>
       ELSE \E spawned \in BOOLEAN :
              /\ did' = [did EXCEPT ![p] = @ \cup {"spawn"}]
              /\ IF spawned
                   THEN /\ spawnCount' = spawnCount + 1
                        /\ alive' = alive \cup {spawnCount + 1}
                        /\ child' = [child EXCEPT ![p] = spawnCount + 1]
                        /\ pc' = [pc EXCEPT ![p] = "sb_store"]
                        /\ UNCHANGED <<backendLock, ret, hist>>
                   ELSE /\ backendLock' = NoProc
                        /\ pc' = [pc EXCEPT ![p] = "sb_done"]
                        /\ ret' = [ret EXCEPT ![p] = "err_spawn"]
                        /\ hist' = [hist EXCEPT !.launchFailed = TRUE]
                        /\ UNCHANGED <<alive, spawnCount, child>>
  /\ UNCHANGED <<navVars, cfg, portOther, backendSlot, webVars, pollVars, handle, orchVars>>

\* Variant: the loop probes before it sleeps.
StartBackendStoreProbeFirst(p) ==
  /\ pc[p] = "sb_store"
  /\ backendSlot' = child[p]
  /\ backendLock' = NoProc
  /\ i' = [i EXCEPT ![p] = 0]
  /\ pc' = [pc EXCEPT ![p] = "sb_probe"]
  /\ UNCHANGED <<navVars, envVars, spawnCount, webVars, ret, probes, okProbes, slept, status,
                 localVars, did, orchVars, hist>>

\* Variant: the guard lives to the end of the function, not of its block.
StartBackendStoreKeepLock(p) ==
  /\ pc[p] = "sb_store"
  /\ backendSlot' = child[p]
  /\ i' = [i EXCEPT ![p] = 0]
  /\ pc' = [pc EXCEPT ![p] = "sb_sleep"]
  /\ UNCHANGED <<navVars, envVars, backendLock, spawnCount, webVars, ret, probes, okProbes, status,
                 slept, localVars, did, orchVars, hist>>

\* *process_guard = Some(child); }  -- the lock is dropped, the poll starts
StartBackendStore(p) ==
  /\ pc[p] = "sb_store"
  /\ backendSlot' = child[p]
  /\ backendLock' = NoProc
  /\ i' = [i EXCEPT ![p] = 0]
  /\ pc' = [pc EXCEPT ![p] = "sb_sleep"]
  /\ UNCHANGED <<navVars, envVars, spawnCount, webVars, ret, probes, okProbes, slept, status,
                 localVars, did, orchVars, hist>>

\* sleep(Duration::from_millis(500)).await  -- first statement of the loop body
StartBackendSleep(p) ==
  /\ pc[p] = "sb_sleep"
  /\ slept' = [slept EXCEPT ![p] = @ + SleepMs]
  /\ pc' = [pc EXCEPT ![p] = "sb_probe"]
  /\ UNCHANGED <<navVars, envVars, backVars, webVars, ret, i, probes, okProbes, status,
                 localVars, did, orchVars, hist>>

\* Variant: a running backend does not end the loop; the result is decided
\* after the last attempt.
StartBackendProbeNoShortCircuit(p) ==
  /\ pc[p] = "sb_probe"
  /\ \E outcome \in ProbeOutcomes :
       LET st == check_backend_health(outcome)
           seen == okProbes[p] + (IF st.isOk /\ st.running THEN 1 ELSE 0)
       IN
         /\ probes' = [probes EXCEPT ![p] = @ + 1]
         /\ okProbes' = [okProbes EXCEPT ![p] = seen]
         /\ i' = [i EXCEPT ![p] = @ + 1]
         /\ IF i[p] + 1 < MaxAttempts
              THEN /\ pc' = [pc EXCEPT ![p] = "sb_sleep"]
                   /\ UNCHANGED ret
              ELSE /\ pc' = [pc EXCEPT ![p] = "sb_done"]
                   /\ ret' = [ret EXCEPT ![p] = IF seen > 0 THEN "ok" ELSE "err_timeout"]
  /\ UNCHANGED <<navVars, envVars, backVars, webVars, slept, status, localVars, did, orchVars, hist>>

\* Variant: on timeout the child is killed and the slot is cleared.
StartBackendProbeCleanupOnTimeout(p) ==
  /\ pc[p] = "sb_probe"
  /\ \E outcome \in ProbeOutcomes :
       LET st == check_backend_health(outcome) IN
         /\ probes' = [probes EXCEPT ![p] = @ + 1]
         /\ IF st.isOk /\ st.running
              THEN /\ okProbes' = [okProbes EXCEPT ![p] = @ + 1]
                   /\ status' = [status EXCEPT ![p] = st]
                   /\ pc' = [pc EXCEPT ![p] = "sb_done"]
                   /\ ret' = [ret EXCEPT ![p] = "ok"]
                   /\ UNCHANGED <<i, backendSlot, alive>>
              ELSE /\ i' = [i EXCEPT ![p] = @ + 1]
                   /\ UNCHANGED <<okProbes, status>>
                   /\ IF i[p] + 1 < MaxAttempts
                        THEN /\ pc' = [pc EXCEPT ![p] = "sb_sleep"]
                             /\ UNCHANGED <<ret, backendSlot, alive>>
                        ELSE /\ pc' = [pc EXCEPT ![p] = "sb_done"]
                             /\ ret' = [ret EXCEPT ![p] = "err_timeout"]
                             /\ backendSlot' = 0
                             /\ alive' = alive \ {child[p]}
  /\ UNCHANGED <<navVars, cfg, portOther, backendLock, spawnCount, webVars, slept,
                 localVars, did, orchVars, hist>>

\* if let Ok(status) = check_backend_health().await { if status.running {
\*   return Ok(()) } }  -- otherwise next i, and Err(..) after the last one.
\* status is in scope only inside the if-let: it is kept where the function
\* returns from inside it.
StartBackendProbe(p) ==
  /\ pc[p] = "sb_probe"
  /\ \E outcome \in ProbeOutcomes :
       LET st == check_backend_health(outcome) IN
         /\ probes' = [probes EXCEPT ![p] = @ + 1]
         /\ IF st.isOk /\ st.running
              THEN /\ okProbes' = [okProbes EXCEPT ![p] = @ + 1]
                   /\ status' = [status EXCEPT ![p] = st]
                   /\ pc' = [pc EXCEPT ![p] = "sb_done"]
                   /\ ret' = [ret EXCEPT ![p] = "ok"]
                   /\ UNCHANGED i
              ELSE /\ i' = [i EXCEPT ![p] = @ + 1]
                   /\ UNCHANGED <<okProbes, status>>
                   /\ IF i[p] + 1 < MaxAttempts
                        THEN /\ pc' = [pc EXCEPT ![p] = "sb_sleep"]
                             /\ UNCHANGED ret
                        ELSE /\ pc' = [pc EXCEPT ![p] = "sb_done"]
                             /\ ret' = [ret EXCEPT ![p] = "err_timeout"]
  /\ UNCHANGED <<navVars, envVars, backVars, webVars, slept, localVars, did, orchVars, hist>>

\* ---------------------------------------------------------------------------
\* stop_backend

\* backend_process.0.lock().unwrap()
StopBackendLock(p) ==
  /\ pc[p] = "kb_lock"
  /\ backendLock = NoProc
  /\ backendLock' = p
  /\ pc' = [pc EXCEPT ![p] = "kb_take"]
  /\ UNCHANGED <<navVars, envVars, backendSlot, spawnCount, webVars, ret, pollVars,
                 localVars, did, orchVars, hist>>

\* Variant: stopping a backend that is not running is reported as an error.
StopBackendTakeErrWhenEmpty(p) ==
  /\ pc[p] = "kb_take"
  /\ IF backendSlot # 0
       THEN /\ child' = [child EXCEPT ![p] = backendSlot]
            /\ backendSlot' = 0
            /\ did' = [did EXCEPT ![p] = @ \cup {"sawOccupied"}]
            /\ pc' = [pc EXCEPT ![p] = "kb_kill"]
            /\ UNCHANGED <<backendLock, ret>>
       ELSE /\ backendLock' = NoProc
            /\ did' = [did EXCEPT ![p] = @ \cup {"sawEmpty"}]
            /\ pc' = [pc EXCEPT ![p] = "kb_done"]
            /\ ret' = [ret EXCEPT ![p] = "err_not_running"]
            /\ UNCHANGED <<backendSlot, child>>
  /\ UNCHANGED <<navVars, envVars, spawnCount, webVars, pollVars, handle, orchVars, hist>>

\* if let Some(mut child) = process_guard.take() { .. }  else Ok(())
StopBackendTake(p) ==
  /\ pc[p] = "kb_take"
  /\ IF backendSlot # 0
       THEN /\ child' = [child EXCEPT ![p] = backendSlot]
            /\ backendSlot' = 0
            /\ did' = [did EXCEPT ![p] = @ \cup {"sawOccupied"}]
            /\ pc' = [pc EXCEPT ![p] = "kb_kill"]
            /\ UNCHANGED <<backendLock, ret>>
       ELSE /\ backendLock' = NoProc
            /\ did' = [did EXCEPT ![p] = @ \cup {"sawEmpty"}]
            /\ pc' = [pc EXCEPT ![p] = "kb_done"]
            /\ ret' = [ret EXCEPT ![p] = "ok"]
            /\ UNCHANGED <<backendSlot, child>>
  /\ UNCHANGED <<navVars, envVars, spawnCount, webVars, pollVars, handle, orchVars, hist>>

\* Variant: a failed kill puts the handle back into the slot.
StopBackendKillRestoreOnError(p) ==
  /\ pc[p] = "kb_kill"
  /\ \E killed \in BOOLEAN :
       /\ alive' = IF killed THEN alive \ {child[p]} ELSE alive
       /\ ret' = [ret EXCEPT ![p] = IF killed THEN "ok" ELSE "err_kill"]
       /\ backendSlot' = IF killed THEN backendSlot ELSE child[p]
  /\ did' = [did EXCEPT ![p] = @ \cup {"kill"}]
  /\ backendLock' = NoProc
  /\ pc' = [pc EXCEPT ![p] = "kb_done"]
  /\ UNCHANGED <<navVars, cfg, portOther, spawnCount, webVars, pollVars,
                 localVars, orchVars, hist>>

\* child.kill().map_err(|e| e.to_string())?;  Ok(())  -- the guard is dropped
StopBackendKill(p) ==
  /\ pc[p] = "kb_kill"
  /\ \E killed \in BOOLEAN :
       /\ alive' = IF killed THEN alive \ {child[p]} ELSE alive
       /\ ret' = [ret EXCEPT ![p] = IF killed THEN "ok" ELSE "err_kill"]
  /\ did' = [did EXCEPT ![p] = @ \cup {"kill"}]
  /\ backendLock' = NoProc
  /\ pc' = [pc EXCEPT ![p] = "kb_done"]
  /\ UNCHANGED <<navVars, cfg, portOther, backendSlot, spawnCount, webVars, pollVars,
                 localVars, orchVars, hist>>

\* ---------------------------------------------------------------------------
\* start_web_server

\* web_server_handle.0.lock().unwrap()
StartWebServerLock(p) ==
  /\ pc[p] = "sw_lock"
  /\ webLock = NoProc
  /\ webLock' = p
  /\ pc' = [pc EXCEPT ![p] = "sw_check"]
  /\ UNCHANGED <<navVars, envVars, backVars, webSlot, listening, serverCount, ret,
                 pollVars, localVars, did, orchVars, hist>>

\* Variant: the is_some() check is missing, every call goes on to bind.
StartWebServerCheckNoReturn(p) ==
  /\ pc[p] = "sw_check"
  /\ pc' = [pc EXCEPT ![p] = "sw_resolve"]
  /\ did' = [did EXCEPT ![p] = @ \cup {IF webSlot # 0 THEN "sawOccupied" ELSE "sawEmpty"}]
  /\ UNCHANGED <<navVars, envVars, backVars, webVars, ret, pollVars, localVars, orchVars, hist>>

\* if server_guard.is_some() { return Ok(()) }
StartWebServerCheck(p) ==
  /\ pc[p] = "sw_check"
  /\ IF webSlot # 0
       THEN /\ webLock' = NoProc
            /\ pc' = [pc EXCEPT ![p] = "sw_done"]
            /\ ret' = [ret EXCEPT ![p] = "ok"]
            /\ did' = [did EXCEPT ![p] = @ \cup {"sawOccupied"}]
       ELSE /\ pc' = [pc EXCEPT ![p] = "sw_resolve"]
            /\ did' = [did EXCEPT ![p] = @ \cup {"sawEmpty"}]
            /\ UNCHANGED <<webLock, ret>>
  /\ UNCHANGED <<navVars, envVars, backVars, webSlot, listening, serverCount, pollVars,
                 localVars, orchVars, hist>>

\* Variant: the existence of the web directory is not checked.
StartWebServerResolveNoDirCheck(p) ==
  /\ pc[p] = "sw_resolve"
  /\ did' = [did EXCEPT ![p] = @ \cup {"resolve"}]
  /\ IF cfg.resolveOk
       THEN /\ pc' = [pc EXCEPT ![p] = "sw_bind"]
            /\ UNCHANGED <<webLock, ret>>
       ELSE /\ webLock' = NoProc
            /\ pc' = [pc EXCEPT ![p] = "sw_done"]
            /\ ret' = [ret EXCEPT ![p] = "err_resolve"]
  /\ UNCHANGED <<navVars, envVars, backVars, webSlot, listening, serverCount, pollVars,
                 localVars, orchVars, hist>>

\* resource_dir()?, resource_path.parent()?, if !web_dir.exists() { return Err }
StartWebServerResolve(p) ==
  /\ pc[p] = "sw_resolve"
  /\ did' = [did EXCEPT ![p] = @ \cup {"resolve"}]
  /\ IF cfg.resolveOk /\ cfg.webDirExists
       THEN /\ pc' = [pc EXCEPT ![p] = "sw_bind"]
            /\ UNCHANGED <<webLock, ret>>
       ELSE /\ webLock' = NoProc
            /\ pc' = [pc EXCEPT ![p] = "sw_done"]
            /\ ret' = [ret EXCEPT ![p] = IF cfg.resolveOk THEN "err_web_dir"
                                                          ELSE "err_resolve"]
  /\ UNCHANGED <<navVars, envVars, backVars, webSlot, listening, serverCount, pollVars,
                 localVars, orchVars, hist>>

\* Variant: the slot is filled before the bind and stays filled when it fails.
StartWebServerBindStoreFirst(p) ==
  /\ pc[p] = "sw_bind"
  /\ did' = [did EXCEPT ![p] = @ \cup {"bind"}]
  /\ hist' = [hist EXCEPT !.bindAttempts = @ + 1,
                          !.firstBindOk = IF hist.bindAttempts = 0
                                            THEN ~portOther /\ listening = {}
                                            ELSE @]
  /\ serverCount' = serverCount + 1
  /\ IF ~portOther /\ listening = {}
       THEN /\ listening' = {serverCount + 1}
            /\ handle' = [handle EXCEPT ![p] = serverCount + 1]
            /\ pc' = [pc EXCEPT ![p] = "sw_store"]
            /\ UNCHANGED <<webLock, webSlot, ret>>
       ELSE /\ webSlot' = serverCount + 1
            /\ webLock' = NoProc
            /\ pc' = [pc EXCEPT ![p] = "sw_done"]
            /\ ret' = [ret EXCEPT ![p] = "err_bind"]
            /\ UNCHANGED <<listening, handle>>
  /\ UNCHANGED <<navVars, envVars, backVars, pollVars, child, orchVars>>

\* HttpServer::new(..).bind(("127.0.0.1", 8871)).map_err(..)?.run()
StartWebServerBind(p) ==
  /\ pc[p] = "sw_bind"
  /\ did' = [did EXCEPT ![p] = @ \cup {"bind"}]
  /\ hist' = [hist EXCEPT !.bindAttempts = @ + 1,
                          !.firstBindOk = IF hist.bindAttempts = 0
                                            THEN ~portOther /\ listening = {}
                                            ELSE @]
  /\ IF ~portOther /\ listening = {}
       THEN /\ serverCount' = serverCount + 1
            /\ listening' = {serverCount + 1}
            /\ handle' = [handle EXCEPT ![p] = serverCount + 1]
            /\ pc' = [pc EXCEPT ![p] = "sw_store"]
            /\ UNCHANGED <<webLock, ret>>
       ELSE /\ webLock' = NoProc
            /\ pc' = [pc EXCEPT ![p] = "sw_done"]
            /\ ret' = [ret EXCEPT ![p] = "err_bind"]
            /\ UNCHANGED <<serverCount, listening, handle>>
  /\ UNCHANGED <<navVars, envVars, backVars, webSlot, pollVars, child, orchVars>>

\* *server_guard = Some(handle); drop(server_guard); spawn(server); Ok(())
StartWebServerStore(p) ==
  /\ pc[p] = "sw_store"
  /\ webSlot' = handle[p]
  /\ webLock' = NoProc
  /\ pc' = [pc EXCEPT ![p] = "sw_done"]
  /\ ret' = [ret EXCEPT ![p] = "ok"]
  /\ UNCHANGED <<navVars, envVars, backVars, listening, serverCount, pollVars,
                 localVars, did, orchVars, hist>>

\* ---------------------------------------------------------------------------
\* stop_web_server

\* web_server_handle.0.lock().unwrap()
StopWebServerLock(p) ==
  /\ pc[p] = "kw_lock"
  /\ webLock = NoProc
  /\ webLock' = p
  /\ pc' = [pc EXCEPT ![p] = "kw_take"]
  /\ UNCHANGED <<navVars, envVars, backVars, webSlot, listening, serverCount, ret,
                 pollVars, localVars, did, orchVars, hist>>

\* Variant: the handle is cloned out of the slot instead of taken.
StopWebServerTakeClone(p) ==
  /\ pc[p] = "kw_take"
  /\ handle' = [handle EXCEPT ![p] = webSlot]
  /\ webLock' = NoProc
  /\ IF webSlot # 0
       THEN /\ did' = [did EXCEPT ![p] = @ \cup {"sawOccupied"}]
            /\ pc' = [pc EXCEPT ![p] = "kw_stop"]
            /\ UNCHANGED ret
       ELSE /\ did' = [did EXCEPT ![p] = @ \cup {"sawEmpty"}]
            /\ pc' = [pc EXCEPT ![p] = "kw_done"]
            /\ ret' = [ret EXCEPT ![p] = "ok"]
  /\ UNCHANGED <<navVars, envVars, backVars, webSlot, listening, serverCount, pollVars,
                 child, orchVars, hist>>

\* let handle = { .. server_guard.take() };  -- the lock is dropped here
StopWebServerTake(p) ==
  /\ pc[p] = "kw_take"
  /\ handle' = [handle EXCEPT ![p] = webSlot]
  /\ webSlot' = 0
  /\ webLock' = NoProc
  /\ IF webSlot # 0
       THEN /\ did' = [did EXCEPT ![p] = @ \cup {"sawOccupied"}]
            /\ pc' = [pc EXCEPT ![p] = "kw_stop"]
            /\ UNCHANGED ret
       ELSE /\ did' = [did EXCEPT ![p] = @ \cup {"sawEmpty"}]
            /\ pc' = [pc EXCEPT ![p] = "kw_done"]
            /\ ret' = [ret EXCEPT ![p] = "ok"]
  /\ UNCHANGED <<navVars, envVars, backVars, listening, serverCount, pollVars, child,
                 orchVars, hist>>

\* handle.stop(true)  -- the graceful shutdown is requested
StopWebServerStop(p) ==
  /\ pc[p] = "kw_stop"
  /\ did' = [did EXCEPT ![p] = @ \cup {"shutdown"}]
  /\ pc' = [pc EXCEPT ![p] = "kw_wait"]
  /\ UNCHANGED <<navVars, envVars, backVars, webVars, ret, pollVars, localVars,
                 orchVars, hist>>

\* .await  -- the server has shut down; Ok(())
StopWebServerWait(p) ==
  /\ pc[p] = "kw_wait"
  /\ listening' = listening \ {handle[p]}
  /\ pc' = [pc EXCEPT ![p] = "kw_done"]
  /\ ret' = [ret EXCEPT ![p] = "ok"]
  /\ UNCHANGED <<navVars, envVars, backVars, webSlot, webLock, serverCount, pollVars,
                 localVars, did, orchVars, hist>>

\* ---------------------------------------------------------------------------
\* main: the startup task spawned in setup

DonePcs == {"hc_done", "sb_done", "kb_done", "sw_done", "kw_done"}

\* start_backend(app_handle_backend.clone(), backend_state).await
StartupBegin ==
  /\ pc[Startup] = "st_init"
  /\ Call(Startup, "start_backend", hist)
  /\ UNCHANGED <<navVars, envVars, backVars, webVars, orchVars>>

\* Variant: an error of start_backend ends the startup task.
StartupAfterBackendReturnEarly ==
  /\ pc[Startup] = "sb_done"
  /\ startupBackend' = ret[Startup]
  /\ IF IsErr(ret[Startup])
       THEN Leave(Startup, "st_done") /\ UNCHANGED hist
       ELSE Call(Startup, "start_web_server", hist)
  /\ UNCHANGED <<navVars, envVars, backVars, webVars, calls, closeRuns, startupWeb, closeStage>>

\* if let Err(e) = start_backend(..) { log::error!(..) } else { log::info!(..) }
\* followed by start_web_server(app_handle_web.clone(), web_server_state).await
StartupAfterBackend ==
  /\ pc[Startup] = "sb_done"
  /\ startupBackend' = ret[Startup]
  /\ Call(Startup, "start_web_server", hist)
  /\ UNCHANGED <<navVars, envVars, backVars, webVars, calls, closeRuns, startupWeb, closeStage>>

\* if let Err(e) = start_web_server(..) { log::error!(..) } else { log::info!(..) }
StartupAfterWeb ==
  /\ pc[Startup] = "sw_done"
  /\ startupWeb' = ret[Startup]
  /\ Leave(Startup, "st_done")
  /\ UNCHANGED <<navVars, envVars, backVars, webVars, calls, closeRuns, startupBackend,
                 closeStage, hist>>

\* ---------------------------------------------------------------------------
\* main: the navigation task spawned in setup

\* if let Some(window) = app.get_webview_window("main") { spawn(..) }
NavSetup ==
  /\ navPc = "nv_setup"
  /\ \E window \in BOOLEAN : navPc' = IF window THEN "nv_sleep" ELSE "nv_none"
  /\ UNCHANGED <<navSlept, navSeen, envVars, backVars, webVars, pc, ret, pollVars,
                 localVars, did, orchVars, hist>>

\* sleep(Duration::from_secs(3)).await
NavSleep ==
  /\ navPc = "nv_sleep"
  /\ navSlept' = navSlept + NavDelayMs
  /\ navPc' = "nv_eval"
  /\ UNCHANGED <<navSeen, envVars, backVars, webVars, pc, ret, pollVars,
                 localVars, did, orchVars, hist>>

\* Variant: the navigation waits until both start commands have returned Ok.
NavEvalAwaitsStartup ==
  /\ navPc = "nv_eval"
  /\ pc[Startup] = "st_done" /\ IsOk(startupBackend) /\ IsOk(startupWeb)
  /\ navPc' = "nv_done"
  /\ navSeen' = [at |-> pc[Startup], slept |-> slept[Startup],
                 backend |-> startupBackend, web |-> startupWeb]
  /\ UNCHANGED <<navSlept, envVars, backVars, webVars, pc, ret, pollVars,
                 localVars, did, orchVars, hist>>

\* let _ = window.eval("window.location.href = 'http://localhost:8871'")
NavEval ==
  /\ navPc = "nv_eval"
  /\ navPc' = "nv_done"
  /\ navSeen' = [at |-> pc[Startup], slept |-> slept[Startup],
                 backend |-> startupBackend, web |-> startupWeb]
  /\ UNCHANGED <<navSlept, envVars, backVars, webVars, pc, ret, pollVars,
                 localVars, did, orchVars, hist>>

\* ---------------------------------------------------------------------------
\* main: on_window_event, WindowEvent::CloseRequested

\* Variant: the web server is stopped before the backend.
CloseSequenceServiceFirst == <<"stop_web_server", "stop_backend">>

\* the commands the close handler runs with block_on, in program order
CloseSequence == <<"stop_backend", "stop_web_server">>

StartupSucceeded ==
  /\ pc[Startup] = "st_done"
  /\ IsOk(startupBackend)
  /\ IsOk(startupWeb)

\* the event arrives; the handler calls the first command
CloseRequested ==
  /\ pc[Closer] = "cl_idle"
  /\ closeRuns < MaxCloseRuns
  /\ closeStage' = 0
  /\ Call(Closer, CloseSequence[1],
          IF closeRuns = 0
            THEN [hist EXCEPT !.closeAfterStartupOk = StartupSucceeded /\ calls = 0,
                              !.closeResults = <<>>]
            ELSE [hist EXCEPT !.closeResults = <<>>])
  /\ UNCHANGED <<navVars, envVars, backVars, webVars, calls, closeRuns, startupBackend,
                 startupWeb>>

\* Variant: an error of a command ends the close handler.
CloseNextReturnOnError ==
  /\ pc[Closer] \in DonePcs
  /\ closeStage' = closeStage + 1
  /\ LET h == [hist EXCEPT !.closeResults = Append(@, ret[Closer])] IN
       IF closeStage + 1 < Len(CloseSequence) /\ IsOk(ret[Closer])
         THEN /\ Call(Closer, CloseSequence[closeStage + 2], h)
              /\ UNCHANGED closeRuns
         ELSE /\ Leave(Closer, "cl_idle")
              /\ closeRuns' = closeRuns + 1
              /\ hist' = h
  /\ UNCHANGED <<navVars, envVars, backVars, webVars, calls, startupBackend, startupWeb>>

\* if let Err(e) = block_on(..) { log::error!(..) }, then the next command
\* of the handler, or the end of the handler
CloseNext ==
  /\ pc[Closer] \in DonePcs
  /\ closeStage' = closeStage + 1
  /\ LET h == [hist EXCEPT !.closeResults = Append(@, ret[Closer])] IN
       IF closeStage + 1 < Len(CloseSequence)
         THEN /\ Call(Closer, CloseSequence[closeStage + 2], h)
              /\ UNCHANGED closeRuns
         ELSE /\ Leave(Closer, "cl_idle")
              /\ closeRuns' = closeRuns + 1
              /\ hist' = h
  /\ UNCHANGED <<navVars, envVars, backVars, webVars, calls, startupBackend, startupWeb>>

\* ---------------------------------------------------------------------------
\* invoke_handler: the front end invokes a command and gets its result

CmdInvoke(c) ==
  /\ pc[Cmd] = "idle"
  /\ calls < MaxCalls
  /\ calls' = calls + 1
  /\ Call(Cmd, c, hist)
  /\ UNCHANGED <<navVars, envVars, backVars, webVars, closeRuns, startupBackend,
                 startupWeb, closeStage>>

CmdReturn ==
  /\ pc[Cmd] \in DonePcs
  /\ Leave(Cmd, "idle")
  /\ UNCHANGED <<navVars, envVars, backVars, webVars, orchVars, hist>>

\* ---------------------------------------------------------------------------
\* the operating system

\* a spawned child terminates by itself
ChildExits ==
  /\ \E c \in alive : alive' = alive \ {c}
  /\ UNCHANGED <<navVars, cfg, portOther, backVars, webVars, pc, ret, pollVars,
                 localVars, did, orchVars, hist>>

\* another program binds 127.0.0.1:8871, or releases it
OtherListenerBinds ==
  /\ ~portOther
  /\ listening = {}
  /\ portOther' = TRUE
  /\ UNCHANGED <<navVars, cfg, alive, backVars, webVars, pc, ret, pollVars, localVars,
                 did, orchVars, hist>>

OtherListenerCloses ==
  /\ portOther
  /\ portOther' = FALSE
  /\ UNCHANGED <<navVars, cfg, alive, backVars, webVars, pc, ret, pollVars, localVars,
                 did, orchVars, hist>>

\* ---------------------------------------------------------------------------
\* steps inside the four commands, by any task

StartBackendStep ==
  \/ \E p \in Procs : StartBackendLock(p)
  \/ \E p \in Procs : StartBackendCheck(p)
  \/ \E p \in Procs : StartBackendResolve(p)
  \/ \E p \in Procs : StartBackendSpawn(p)
  \/ \E p \in Procs : StartBackendStore(p)
  \/ \E p \in Procs : StartBackendSleep(p)
  \/ \E p \in Procs : StartBackendProbe(p)

StopBackendStep ==
  \/ \E p \in Procs : StopBackendLock(p)
  \/ \E p \in Procs : StopBackendTake(p)
  \/ \E p \in Procs : StopBackendKill(p)

StartWebServerStep ==
  \/ \E p \in Procs : StartWebServerLock(p)
  \/ \E p \in Procs : StartWebServerCheck(p)
  \/ \E p \in Procs : StartWebServerResolve(p)
  \/ \E p \in Procs : StartWebServerBind(p)
  \/ \E p \in Procs : StartWebServerStore(p)

StopWebServerStep ==
  \/ \E p \in Procs : StopWebServerLock(p)
  \/ \E p \in Procs : StopWebServerTake(p)
  \/ \E p \in Procs : StopWebServerStop(p)
  \/ \E p \in Procs : StopWebServerWait(p)

StartupStep ==
  \/ StartupBegin
  \/ StartupAfterBackend
  \/ StartupAfterWeb

CloseStep ==
  \/ CloseRequested
  \/ CloseNext

EnvStep ==
  \/ ChildExits
  \/ OtherListenerBinds
  \/ OtherListenerCloses

\* The supervisor under concurrent command invocation: the startup task and
\* a front end that invokes any of the commands.
Next ==
  \/ StartBackendStep
  \/ StopBackendStep
  \/ StartWebServerStep
  \/ StopWebServerStep
  \/ StartupStep
  \/ \E c \in Commands : CmdInvoke(c)
  \/ CmdReturn
  \/ EnvStep

Spec == Init /\ [][Next]_vars

\* The launcher as main() wires it: the startup task races the close handler.
NextLife ==
  \/ StartBackendStep
  \/ StopBackendStep
  \/ StartWebServerStep
  \/ StopWebServerStep
  \/ StartupStep
  \/ CloseStep
  \/ EnvStep

SpecLife == Init /\ [][NextLife]_vars

\* The health probe: the startup task polls it inside start_backend while the
\* front end invokes it as a command.
NextHealth ==
  \/ \E p \in Procs : CheckBackendHealth(p)
  \/ StartBackendStep
  \/ StartupBegin
  \/ \E c \in HealthCommands : CmdInvoke(c)
  \/ CmdReturn
  \/ EnvStep

SpecHealth == Init /\ [][NextHealth]_vars

NavStep ==
  \/ NavSetup
  \/ NavSleep
  \/ NavEval

\* setup: the startup task and the navigation task run side by side.
NextNav ==
  \/ StartBackendStep
  \/ StartWebServerStep
  \/ StartupStep
  \/ NavStep
  \/ EnvStep

SpecNav == Init /\ [][NextNav]_vars

TypeOK ==
  /\ cfg \in Configs
  /\ backendSlot \in 0..spawnCount
  /\ webSlot \in 0..serverCount
  /\ backendLock \in Procs \cup {NoProc}
  /\ webLock \in Procs \cup {NoProc}
  /\ alive \subseteq 1..spawnCount
  /\ listening \subseteq 1..serverCount

\* ===========================================================================
\* Properties

Polling(p) == pc[p] \in {"sb_sleep", "sb_probe"}

\* a task that has got past the launch inside start_backend
Launched(p) == pc[p] \in {"sb_store", "sb_sleep", "sb_probe"}
                 \/ (pc[p] = "sb_done" /\ "spawn" \in did[p])

\* C1: as long as no stop_backend has been invoked and no launch has failed,
\* at most one spawn is performed, and exactly one once a start_backend call
\* has returned; a call that saw the slot occupied returned Ok without
\* spawning; and no step replaces a stored child by another child.
C1_State ==
  /\ \A p \in Procs :
       (pc[p] = "sb_done" /\ "sawOccupied" \in did[p])
         => (ret[p] = "ok" /\ "spawn" \notin did[p] /\ child[p] = 0)
  /\ (~hist.stopBackendRan /\ ~hist.launchFailed)
       => /\ spawnCount <= 1
          /\ (\E p \in Procs : pc[p] = "sb_done" \/ Launched(p)) => spawnCount = 1
          /\ Cardinality({p \in Procs : "spawn" \in did[p] /\ pc[p] \in {"sb_store", "sb_sleep", "sb_probe", "sb_done"}}) <= 1

C1_NoOverwrite == backendSlot # 0 => backendSlot' \in {0, backendSlot}

C1_SingleSpawn == [] C1_State /\ [][C1_NoOverwrite]_vars

\* two interleaved calls and a later one: the startup task is still polling
\* while the front end's second call has returned as a no-op
C1_Witness ==
  /\ ~hist.stopBackendRan /\ ~hist.launchFailed
  /\ spawnCount = 1
  /\ Polling(Startup) /\ "spawn" \in did[Startup]
  /\ calls = 2
  /\ pc[Cmd] = "sb_done" /\ "sawOccupied" \in did[Cmd]

\* C2: as long as no stop_web_server has been invoked and the first bind
\* succeeded, exactly one bind attempt has been made; a call that saw a stored
\* handle returned Ok without resolving the web directory or binding.
C2_SingleBind ==
  /\ \A p \in Procs :
       (pc[p] = "sw_done" /\ "sawOccupied" \in did[p])
         => (ret[p] = "ok" /\ "resolve" \notin did[p] /\ "bind" \notin did[p])
  /\ (~hist.stopWebRan /\ hist.firstBindOk)
       => (hist.bindAttempts = 1 /\ serverCount = 1)

C2_Witness ==
  /\ ~hist.stopWebRan /\ hist.firstBindOk
  /\ pc[Startup] = "sw_done" /\ "bind" \in did[Startup] /\ ret[Startup] = "ok"
  /\ pc[Cmd] = "sw_done" /\ "sawOccupied" \in did[Cmd]
  /\ webSlot # 0

\* C3: a call never makes more than 30 probes; the first probe that reports
\* running ends the call with Ok, after N failed probes (N in 0..29) and
\* N + 1 probes in all; a call that launched returns Ok only that way.
C3_ProbeBudget ==
  \A p \in Procs :
    /\ probes[p] <= 30
    /\ okProbes[p] <= 1
    /\ okProbes[p] = 1
         => /\ pc[p] = "sb_done" /\ ret[p] = "ok"
            /\ i[p] \in 0..29
            /\ probes[p] = i[p] + 1
    /\ (pc[p] = "sb_done" /\ ret[p] = "ok" /\ "spawn" \in did[p]) => okProbes[p] = 1
    /\ Polling(p) => (okProbes[p] = 0 /\ probes[p] = i[p] /\ i[p] < 30)

\* N = 29: the last attempt of the budget succeeds
C3_Witness ==
  \E p \in Procs :
    pc[p] = "sb_done" /\ ret[p] = "ok" /\ okProbes[p] = 1 /\ i[p] = 29 /\ probes[p] = 30

\* C4 as stated: after N failed probes and a successful one the call has
\* slept N x 500 ms.
C4_SleepsN ==
  \A p \in Procs :
    (pc[p] = "sb_done" /\ okProbes[p] = 1) => slept[p] = i[p] * 500

\* C4 amended: after N failed probes and a successful one the call has slept
\* (N + 1) x 500 ms, one interval before every probe, the first included.
C4_SleepsNPlusOne ==
  \A p \in Procs :
    /\ (pc[p] = "sb_done" /\ okProbes[p] = 1) => slept[p] = (i[p] + 1) * 500
    /\ pc[p] = "sb_probe" => slept[p] = (probes[p] + 1) * 500

\* an immediately healthy backend is reported after one 500 ms sleep
C4_Witness ==
  \E p \in Procs :
    pc[p] = "sb_done" /\ ret[p] = "ok" /\ okProbes[p] = 1 /\ i[p] = 0 /\ slept[p] = 500

\* C5: 30 failed probes end the call with the timeout error, and unless a
\* stop_backend has been invoked the slot still holds the child this call
\* spawned, which has not been killed.
C5_TimeoutKeepsHandle ==
  \A p \in Procs :
    /\ i[p] = 30 => (pc[p] = "sb_done" /\ ret[p] = "err_timeout" /\ probes[p] = 30)
    /\ (pc[p] = "sb_done" /\ ret[p] = "err_timeout")
         => /\ i[p] = 30 /\ okProbes[p] = 0 /\ child[p] # 0
            /\ ~hist.stopBackendRan => backendSlot = child[p]

C5_Witness ==
  \E p \in Procs :
    /\ pc[p] = "sb_done" /\ ret[p] = "err_timeout"
    /\ ~hist.stopBackendRan
    /\ backendSlot = child[p] /\ child[p] \in alive

\* C6: a stop command that finds its slot empty returns Ok and has sent no
\* kill and requested no shutdown; the step that finds the slot empty changes
\* neither slot, no process and no listener.
C6_State ==
  \A p \in Procs :
    /\ (pc[p] = "kb_done" /\ "sawEmpty" \in did[p])
         => (ret[p] = "ok" /\ "kill" \notin did[p] /\ child[p] = 0)
    /\ (pc[p] = "kw_done" /\ "sawEmpty" \in did[p])
         => (ret[p] = "ok" /\ "shutdown" \notin did[p] /\ handle[p] = 0)

C6_Frame ==
  \A p \in Procs :
    (pc'[p] # pc[p] /\ (\/ (pc[p] = "kb_take" /\ backendSlot = 0)
                        \/ (pc[p] = "kw_take" /\ webSlot = 0)))
      => /\ pc'[p] \in {"kb_done", "kw_done"}
         /\ UNCHANGED <<backendSlot, webSlot, alive, listening>>

C6_StopOnEmpty == [] C6_State /\ [][C6_Frame]_vars

\* both stop commands have been run on empty slots
C6_Witness ==
  /\ pc[Cmd] = "kw_done" /\ "sawEmpty" \in did[Cmd] /\ ret[Cmd] = "ok"
  /\ calls = 2
  /\ backendSlot = 0 /\ webSlot = 0
  /\ hist.stopBackendRan

\* C7: when the first close request arrives after the startup task has
\* finished with both commands Ok, the first run of the handler leaves both
\* slots empty and no server listening, and any later run finds both slots
\* empty, sends no kill and requests no shutdown.
C7_ShutdownEmpties ==
  (hist.closeAfterStartupOk /\ closeRuns >= 1)
    => /\ backendSlot = 0
       /\ webSlot = 0
       /\ listening = {}
       /\ did[Closer] \subseteq {"sawEmpty"}

C7_Witness ==
  /\ hist.closeAfterStartupOk
  /\ closeRuns = 2
  /\ spawnCount = 1 /\ serverCount = 1
  /\ backendSlot = 0 /\ webSlot = 0

SwPcs == {"sw_lock", "sw_check", "sw_resolve", "sw_bind", "sw_store", "sw_done"}
KbPcs == {"kb_lock", "kb_take", "kb_kill", "kb_done"}
KwPcs == {"kw_lock", "kw_take", "kw_stop", "kw_wait", "kw_done"}

\* C8 as stated: once start_backend has returned an error to the startup task,
\* the task never is inside start_web_server, no bind is attempted and the
\* web-server slot stays empty.
C8_NoWebAfterBackendError ==
  IsErr(startupBackend)
    => /\ pc[Startup] \notin SwPcs
       /\ startupWeb = "none"
       /\ hist.bindAttempts = 0
       /\ webSlot = 0

\* C8 amended: whatever start_backend returned, the startup task goes on to
\* invoke start_web_server; it finishes only after that call has returned.
C8_WebStartedRegardless ==
  /\ startupBackend # "none"
       => (pc[Startup] \in SwPcs \/ (pc[Startup] = "st_done" /\ startupWeb # "none"))
  /\ pc[Startup] = "st_done" => startupBackend # "none"

\* the backend timed out and the web server was started all the same
C8_Witness ==
  /\ startupBackend = "err_timeout"
  /\ pc[Startup] = "st_done"
  /\ startupWeb = "ok"
  /\ serverCount = 1

\* the commands the current run of the close handler has completed
CloseCompleted == {CloseSequence[k] : k \in 1..closeStage}

\* C9 as stated: the close handler has sent the kill only after its
\* stop_web_server has completed.
C9_WebStoppedFirst ==
  "kill" \in did[Closer] => "stop_web_server" \in CloseCompleted

\* C9 amended: the close handler stops the backend first and the web server
\* second: it is inside stop_web_server only after its stop_backend has
\* returned, and inside stop_backend only before stop_web_server.
C9_BackendStoppedFirst ==
  /\ pc[Closer] \in KwPcs => "stop_backend" \in CloseCompleted
  /\ pc[Closer] \in KbPcs => CloseCompleted = {}

\* the shutdown is being awaited after the kill of the spawned child
C9_Witness ==
  /\ pc[Closer] = "kw_wait"
  /\ "shutdown" \in did[Closer]
  /\ CloseCompleted = {"stop_backend"}
  /\ spawnCount = 1 /\ backendSlot = 0

\* C10: a task that is sleeping, probing, or requesting or awaiting the
\* graceful shutdown holds neither lock (nor does a task outside a command).
Suspended(p) == pc[p] \in {"sb_sleep", "sb_probe", "kw_stop", "kw_wait"}

C10_NoLockAcrossSuspension ==
  \A p \in Procs :
    (Suspended(p) \/ pc[p] \in DonePcs \cup {"idle", "st_init", "st_done", "cl_idle"})
      => (backendLock # p /\ webLock # p)

\* stop_backend took the handle of a polling start_backend, killed the child
\* and returned while the poll goes on
C10_Witness ==
  /\ Polling(Startup) /\ i[Startup] >= 1
  /\ pc[Cmd] = "kb_done" /\ ret[Cmd] = "ok" /\ "kill" \in did[Cmd]
  /\ child[Cmd] # 0 /\ child[Cmd] = child[Startup]
  /\ backendSlot = 0
  /\ backendLock = NoProc

\* C12 as stated: check_backend_health never returns an error and reports
\* running only for a success response; the poll of start_backend returns Ok
\* only on a success response.
C12_RunningOnlyOnSuccess ==
  \A p \in Procs :
    status[p].outcome # "none"
      => (status[p].isOk /\ (status[p].running => status[p].outcome = "success"))

\* C12 amended: check_backend_health never returns an error and reports
\* running exactly when the request got a response, of whatever HTTP status;
\* a connection error and a timeout give running = false.  The poll of
\* start_backend returns Ok on any response.
C12_RunningOnAnyResponse ==
  \A p \in Procs :
    /\ status[p].outcome # "none"
         => /\ status[p].isOk
            /\ status[p].running <=> status[p].outcome \in {"success", "http_error"}
            /\ status[p].outcome \in {"conn_error", "timeout"} => ~status[p].running
    /\ pc[p] = "hc_done" => (ret[p] = "ok" /\ status[p].outcome # "none")
    /\ (pc[p] = "sb_done" /\ ret[p] = "ok" /\ "spawn" \in did[p])
         => status[p].outcome \in {"success", "http_error"}

\* the poll has ended on a non-success response, while the command reports a
\* refused connection as not running
C12_Witness ==
  /\ pc[Startup] = "sb_done" /\ ret[Startup] = "ok"
  /\ status[Startup].outcome = "http_error" /\ status[Startup].running
  /\ pc[Cmd] = "hc_done" /\ ret[Cmd] = "ok"
  /\ status[Cmd].outcome = "conn_error" /\ ~status[Cmd].running

\* C11: once a run of the close handler has returned, no child spawned by
\* the launcher is alive, no server of the launcher is listening, and both
\* slots are empty, whatever the startup task does meanwhile or afterwards.
C11_NothingOutlivesClose ==
  (closeRuns >= 1 /\ pc[Closer] = "cl_idle")
    => /\ alive = {}
       /\ listening = {}
       /\ backendSlot = 0
       /\ webSlot = 0

\* C13: when the web directory does not exist, start_web_server returns the
\* directory-not-found error without binding and with its lock released; no
\* bind is ever attempted and the web-server slot stays empty; the step that
\* returns the error changes neither the backend slot nor a backend process.
C13_State ==
  /\ \A p \in Procs :
       (pc[p] = "sw_done" /\ ret[p] = "err_web_dir")
         => /\ ~cfg.webDirExists
            /\ "bind" \notin did[p]
            /\ handle[p] = 0
            /\ webLock # p
  /\ (cfg.resolveOk /\ ~cfg.webDirExists)
       => /\ hist.bindAttempts = 0 /\ serverCount = 0 /\ listening = {}
          /\ webSlot = 0
          /\ \A p \in Procs : (pc[p] = "sw_done" /\ ret[p] # "err_web_dir") => "sawOccupied" \in did[p]

C13_Frame ==
  \A p \in Procs :
    (pc[p] = "sw_resolve" /\ pc'[p] = "sw_done")
      => /\ webSlot' = 0
         /\ webLock' = NoProc
         /\ UNCHANGED <<backendSlot, backendLock, alive, spawnCount>>

C13_MissingWebDir == [] C13_State /\ [][C13_Frame]_vars

\* the backend was started and is running when the web directory is missed
C13_Witness ==
  /\ pc[Startup] = "sw_done" /\ ret[Startup] = "err_web_dir"
  /\ IsOk(startupBackend)
  /\ backendSlot # 0 /\ backendSlot \in alive
  /\ webSlot = 0

\* C14: a bind fails only while the port is held by another listener; the
\* call then returns the bind error with the web-server slot empty, nothing
\* listening added and its lock released.  A bind attempted while the port is
\* free succeeds, and the call stores the handle and returns Ok.
C14_State ==
  \A p \in Procs :
    /\ (pc[p] = "sw_done" /\ ret[p] = "err_bind")
         => ("bind" \in did[p] /\ handle[p] = 0 /\ webLock # p)
    /\ pc[p] = "sw_store"
         => (handle[p] # 0 /\ handle[p] \in listening /\ webLock = p /\ webSlot = 0)
    /\ (pc[p] = "sw_done" /\ ret[p] = "ok" /\ "bind" \in did[p]) => handle[p] # 0

C14_Act ==
  \A p \in Procs :
    /\ (pc[p] = "sw_bind" /\ pc'[p] = "sw_done")
         => /\ ret'[p] = "err_bind"
            /\ portOther \/ listening # {}
            /\ webSlot' = 0
            /\ webLock' = NoProc
            /\ listening' = listening
    /\ (pc[p] = "sw_bind" /\ pc'[p] # pc[p] /\ ~portOther /\ listening = {})
         => pc'[p] = "sw_store"
    /\ (pc[p] = "sw_store" /\ pc'[p] # pc[p])
         => /\ pc'[p] = "sw_done" /\ ret'[p] = "ok"
            /\ webSlot' = handle[p]
            /\ webLock' = NoProc

C14_BindFailedThenRetry == [] C14_State /\ [][C14_Act]_vars

\* the front end's first call failed on the foreign listener, its second
\* call, after the listener has closed, has bound and stored the handle
C14_Witness ==
  /\ pc[Startup] = "st_init"
  /\ calls = 2
  /\ hist.bindAttempts = 2 /\ ~hist.firstBindOk
  /\ ~portOther
  /\ pc[Cmd] = "sw_done" /\ ret[Cmd] = "ok" /\ "bind" \in did[Cmd]
  /\ webSlot # 0 /\ webSlot = handle[Cmd]

\* C15: a start_backend that cannot launch (path resolution fails, the
\* release executable is absent, or the spawn is refused) returns an error
\* having slept and probed nothing, with the slot empty and its lock released;
\* with the release executable absent no spawn is ever attempted.  A call
\* that finds the slot empty goes on to launch: it is no no-op.
LaunchErrors == {"err_resolve", "err_not_found", "err_spawn"}

C15_State ==
  /\ \A p \in Procs :
       /\ (pc[p] = "sb_done" /\ ret[p] \in LaunchErrors)
            => (child[p] = 0 /\ probes[p] = 0 /\ slept[p] = 0 /\ backendLock # p)
       /\ (pc[p] = "sb_done" /\ ret[p] = "err_not_found")
            => (~cfg.debug /\ ~cfg.exeExists /\ "spawn" \notin did[p])
       /\ (pc[p] = "sb_done" /\ ret[p] = "err_spawn") => "spawn" \in did[p]
  /\ (~cfg.debug /\ ~cfg.exeExists)
       => (spawnCount = 0 /\ \A p \in Procs : "spawn" \notin did[p])

C15_Act ==
  \A p \in Procs :
    /\ (pc[p] \in {"sb_resolve", "sb_spawn"} /\ pc'[p] = "sb_done")
         => /\ ret'[p] \in LaunchErrors
            /\ backendSlot' = 0
            /\ backendLock' = NoProc
            /\ alive' = alive /\ spawnCount' = spawnCount
    /\ (pc[p] = "sb_check" /\ pc'[p] # pc[p] /\ backendSlot = 0)
         => pc'[p] = "sb_resolve"

C15_LaunchFailure == [] C15_State /\ [][C15_Act]_vars

\* the front end's first call was refused the spawn, its second call has
\* spawned and stored a child
C15_Witness ==
  /\ pc[Startup] = "st_init"
  /\ calls = 2
  /\ hist.launchFailed
  /\ Polling(Cmd) /\ "spawn" \in did[Cmd]
  /\ spawnCount = 1 /\ backendSlot = 1

\* C16 as stated: window.eval is issued only when both start commands of the
\* startup task have returned Ok.
C16_NavOnlyAfterBothOk ==
  navPc = "nv_done" => (IsOk(navSeen.backend) /\ IsOk(navSeen.web))

\* C16 amended: window.eval is issued by a task of its own after one fixed
\* sleep of 3000 ms; once that sleep is over nothing holds it back, whatever
\* the startup task has done.
C16_NavAfterFixedDelay ==
  /\ navPc \in {"nv_setup", "nv_sleep", "nv_none"} => (navSlept = 0 /\ navSeen = NotNavigated)
  /\ navPc = "nv_eval" => (navSlept = 3000 /\ navSeen = NotNavigated /\ ENABLED NavEval)
  /\ navPc = "nv_done" => (navSlept = 3000 /\ navSeen.at # "none")

\* window.eval was issued while start_backend was still polling, 3 s into it
C16_Witness ==
  /\ navPc = "nv_done"
  /\ navSeen.at = "sb_sleep" /\ navSeen.slept = 3000
  /\ navSeen.backend = "none" /\ navSeen.web = "none"

\* C17: the backend slot holds a handle only while the process it refers to
\* is running.
C17_HandleOnlyWhileRunning ==
  backendSlot # 0 => backendSlot \in alive

\* C18: in the shutdown sequence both stops are always attempted: the close
\* handler runs its second command whatever the first one returned, an error
\* is only recorded, and every run of the handler ends after both commands.
C18_BothStopsAttempted ==
  /\ Len(hist.closeResults) = (IF pc[Closer] = "cl_idle" /\ closeRuns > 0
                                 THEN Len(CloseSequence) ELSE closeStage)
  /\ pc[Closer] \in KwPcs =>
       /\ Len(hist.closeResults) = 1
       /\ hist.closeResults[1] \in {"ok", "err_kill"}
  /\ pc[Closer] \in KbPcs => hist.closeResults = <<>>
  /\ (pc[Closer] = "cl_idle" /\ closeRuns > 0) =>
       /\ hist.stopBackendRan /\ hist.stopWebRan
       /\ hist.closeResults[1] \in {"ok", "err_kill"}
       /\ hist.closeResults[2] = "ok"

C18_Witness ==
  /\ pc[Closer] = "cl_idle"
  /\ closeRuns = 1
  /\ hist.closeResults = <<"err_kill", "ok">>
  /\ alive # {}
  /\ serverCount = 1
  /\ listening = {}

\* C19: stop_backend takes the handle out of the slot before it sends the
\* kill signal: while the kill is pending the slot is already empty, and when
\* the kill fails stop_backend returns the error with the slot not holding
\* that handle and no other stop_backend holding it, so the supervisor has lost the
\* process; a later start_backend then spawns next to it (C19_Witness).
C19_TakeBeforeKill ==
  \A p \in Procs :
    /\ pc[p] = "kb_kill" =>
         /\ backendLock = p
         /\ backendSlot = 0
         /\ child[p] # 0
         /\ "kill" \notin did[p]
    /\ (pc[p] = "kb_done" /\ ret[p] = "err_kill") =>
         /\ "kill" \in did[p]
         /\ backendLock # p
         /\ child[p] # 0
         /\ backendSlot # child[p]
         /\ \A q \in Procs \ {p} : pc[q] \in KbPcs => child[q] # child[p]

C19_Witness ==
  /\ pc[Cmd] = "kb_done" /\ ret[Cmd] = "err_kill"
  /\ child[Cmd] = 1
  /\ alive = {1, 2}
  /\ spawnCount = 2
  /\ backendSlot = 2

\* C20: a start_backend call that finds the slot occupied returns Ok at once:
\* it never sleeps and never probes, whatever the call that filled the slot
\* is doing or has returned, so its Ok says nothing about the health endpoint.
C20_OccupiedReturnsWithoutProbe ==
  \A p \in Procs :
    (pc[p] \in {"sb_check", "sb_resolve", "sb_spawn", "sb_store", "sb_sleep",
                "sb_probe", "sb_done"} /\ "sawOccupied" \in did[p]) =>
      /\ pc[p] = "sb_done"
      /\ ret[p] = "ok"
      /\ did[p] = {"sawOccupied"}
      /\ i[p] = 0
      /\ probes[p] = 0
      /\ okProbes[p] = 0
      /\ slept[p] = 0
      /\ status[p] = NoStatus
      /\ backendLock # p

C20_Witness ==
  /\ startupBackend = "err_timeout"
  /\ calls = 1
  /\ pc[Cmd] = "sb_done"
  /\ ret[Cmd] = "ok"
  /\ did[Cmd] = {"sawOccupied"}
  /\ probes[Cmd] = 0

====
